---- MODULE Spec2Model ----
(***************************************************************************)
(* Canal simulation with cargo loading (Mvr09/PracticaIA).                 *)
(*                                                                         *)
(*   Model/cargo.py, Model/boat.py      Cargo, Boat, can_load, load_cargo  *)
(*   Model/cargo_optimizer.py           evalCargo, optimize_cargo (DEAP    *)
(*                                      eaSimple + HallOfFame(1)),         *)
(*                                      load_optimal_cargo                 *)
(*   Controller/controller.py           CanalSimulation on a simpy         *)
(*                                      Environment and Resource           *)
(*                                                                         *)
(* Four specifications share the module:                                   *)
(*   SpecCargo  one boat, one catalog: the optimizer, the loader, the      *)
(*              greedy loop and direct load_cargo calls;                   *)
(*   Spec       one simulation run: the event queue, the lock pool, the    *)
(*              arrival generator and the ship processes;                  *)
(*   SpecConfig the same run over the configurations a caller can pass,    *)
(*              the invalid ones included;                                 *)
(*   SpecLive   the same run under weak fairness of the event loop.        *)
(* Times, weights and values are integers; fees and averages, which the    *)
(* code computes by true division, are exact fractions <<num, den>>.       *)
(***************************************************************************)
EXTENDS Integers, Sequences, FiniteSets, TLC

VARIABLES
    \* ---- cargo side (SpecCargo)
    cargo_options,   \* the catalog handed to the loaders
    boat,            \* the Boat under load
    pc,              \* position inside load_optimal_cargo / the greedy loop
    pop,             \* eaSimple: the population, and from toolbox.select on the
                     \* offspring that replace it (the old population is not
                     \* read again once the offspring are selected)
    hof,             \* tools.HallOfFame(1): a sequence of at most one individual
    gen,             \* eaSimple: generations completed
    result,          \* <<best, best_fitness>> once optimize_cargo returned
    last_load,       \* <<cargo>> of the last direct load_cargo call, else <<>>
    evaluated,       \* history: the individuals toolbox.evaluate was applied to
    \* ---- simulation side (Spec)
    run_pc,          \* "constructed", "running", "finished" or "crashed";
                     \* "rejected" when the constructor raised
    until,           \* the horizon handed to run(until=...)
    base_fee,        \* CanalSimulation.base_fee
    arrival_rate,    \* run(arrival_rate=...); rates are reals, the model keeps
                     \* an integer of the same sign
    avg_service_time,\* CanalSimulation.avg_service_time, likewise
    now,             \* env.now, the virtual clock
    queue,           \* the environment's event queue, in processing order
    lock,            \* simpy.Resource: [capacity, users, put_queue]
    procs,           \* the ship processes spawned so far, in spawn order
    wait_times,      \* CanalSimulation.wait_times
    total_fees_collected,
    ship_count,
    ship_logs,
    cargo_logs,
    canal_logs,
    emitted,         \* history: the process that appended each ship_logs entry
    cargo_emitted,   \* history: the process that appended each cargo_logs entry
    request_order,   \* history: the processes in the order they called lock.request()
    queued           \* history: the processes whose request() was not granted at once

cargoVars == <<boat, pc, pop, hof, gen, result, last_load, evaluated>>
configVars == <<base_fee, arrival_rate, avg_service_time>>
simVars == <<run_pc, until, configVars, now, queue, lock, procs, wait_times,
             total_fees_collected, ship_count, ship_logs, cargo_logs, canal_logs,
             emitted, cargo_emitted, request_order, queued>>
vars == <<cargo_options, cargoVars, simVars>>

----------------------------------------------------------------------------
(* Bounds of the model *)

\* population_size of optimize_cargo (the code's default is 50)
PopSize == 2
\* generations of optimize_cargo (the code's default is 100)
Generations == 2

\* ship processes spawned in one run (the arrival generator never stops by itself)
MaxShips == 3

(* Program constants *)

\* Toggle for using the cargo optimization algorithm
USE_OPTIMIZATION == TRUE
\* CanalSimulation.__init__, base_fee=1000
default_base_fee == 1000

\* tools.selTournament, tournsize=3
tournsize == 3
\* tools.HallOfFame(1)
hof_maxsize == 1

----------------------------------------------------------------------------
(* Model/cargo.py, Model/boat.py *)

Cargo(name, value_per_unit, weight, space_required, category) ==
    [name |-> name, value_per_unit |-> value_per_unit, weight |-> weight,
     space_required |-> space_required, category |-> category]

\* Boat.__init__: the attribute `cargo` does not exist until can_load sets it;
\* it is <<>> while absent and <<v>> once set.
Boat(name, max_weight, max_space) ==
    [name |-> name, max_weight |-> max_weight, max_space |-> max_space,
     current_weight |-> 0, current_space |-> 0, total_value |-> 0,
     cargo_list |-> <<>>, cargo |-> <<>>]

\* mutant of can_load: the space limit is not checked
can_load_weight_only(self, cargo) ==
    IF self.current_weight + cargo.weight > self.max_weight
    THEN [ret |-> FALSE, self |-> self]
    ELSE [ret |-> TRUE, self |-> [self EXCEPT !.cargo = <<cargo.value_per_unit>>]]

\* Boat.can_load: the returned flag and the boat after the call
\* (`self.cargo =+ cargo.value_per_unit` assigns +value_per_unit).
can_load(self, cargo) ==
    IF self.current_weight + cargo.weight > self.max_weight
    THEN [ret |-> FALSE, self |-> self]
    ELSE IF self.current_space + cargo.space_required > self.max_space
    THEN [ret |-> FALSE, self |-> self]
    ELSE [ret |-> TRUE, self |-> [self EXCEPT !.cargo = <<cargo.value_per_unit>>]]

\* mutant of load_cargo: the value is accumulated before the capacity check
load_cargo_value_first(self, cargo) ==
    LET r == can_load(self, cargo) IN
    IF r.ret
    THEN [r.self EXCEPT !.cargo_list = Append(@, cargo),
                        !.current_weight = @ + cargo.weight,
                        !.current_space = @ + cargo.space_required,
                        !.total_value = @ + cargo.value_per_unit]
    ELSE [r.self EXCEPT !.total_value = @ + cargo.value_per_unit]

\* mutant of load_cargo: total_value accumulates value_per_unit * weight
load_cargo_weighted_value(self, cargo) ==
    LET r == can_load(self, cargo) IN
    IF r.ret
    THEN [r.self EXCEPT !.cargo_list = Append(@, cargo),
                        !.current_weight = @ + cargo.weight,
                        !.current_space = @ + cargo.space_required,
                        !.total_value = @ + cargo.value_per_unit * cargo.weight]
    ELSE r.self

\* Boat.load_cargo: the boat after the call
load_cargo(self, cargo) ==
    LET r == can_load(self, cargo) IN
    IF r.ret
    THEN [r.self EXCEPT !.cargo_list = Append(@, cargo),
                        !.current_weight = @ + cargo.weight,
                        !.current_space = @ + cargo.space_required,
                        !.total_value = @ + cargo.value_per_unit]
    ELSE r.self

----------------------------------------------------------------------------
(* Inputs *)

CargoA == Cargo("A", 50, 2000, 150, "Container")
CargoB == Cargo("B", 40, 3000, 200, "Container")
CargoH == Cargo("H", 10, 6000, 100, "Bulk")

Catalogs == { <<>>, <<CargoA>>, <<CargoA, CargoB>>, <<CargoH, CargoA>> }

\* random_boat: max_weight >= 1000, max_space >= 100
Boats == { Boat("Boat_1", 5000, 300), Boat("Boat_2", 1000, 100) }

----------------------------------------------------------------------------
(* Model/cargo_optimizer.py *)

BitVectors(n) == [1..n -> {0, 1}]

RECURSIVE Totals(_, _, _)
\* evalCargo lines 15-22: the running totals over zip(individual, cargo_options),
\* from position i on
Totals(individual, options, i) ==
    IF i > Len(options) \/ i > Len(individual)
    THEN [weight |-> 0, space |-> 0, value |-> 0]
    ELSE LET rest == Totals(individual, options, i + 1)
             cargo == options[i]
         IN IF individual[i] # 0
            THEN [weight |-> cargo.weight + rest.weight,
                  space |-> cargo.space_required + rest.space,
                  value |-> cargo.value_per_unit * cargo.weight + rest.value]
            ELSE rest

\* evalCargo: fitness 0 when a limit is exceeded, else the total value
evalCargo(individual, b, options) ==
    LET t == Totals(individual, options, 1)
    IN IF t.weight > b.max_weight \/ t.space > b.max_space
       THEN 0 ELSE t.value

\* mutant of hof_update: the hall of fame keeps its first entry
hof_update_keep(h, population, i, b, options) ==
    IF Len(h) = 0 /\ Len(population) > 0 THEN <<population[1]>> ELSE h

RECURSIVE hof_update(_, _, _, _, _)
\* HallOfFame.update(population) with maxsize 1: an empty hall takes
\* population[0]; afterwards only a strictly greater fitness replaces the entry.
hof_update(h, population, i, b, options) ==
    IF i > Len(population) THEN h
    ELSE LET ind == population[i]
             h2 == IF Len(h) = 0 /\ hof_maxsize # 0
                   THEN <<population[1]>>
                   ELSE IF evalCargo(ind, b, options) > evalCargo(h[Len(h)], b, options)
                           \/ Len(h) < hof_maxsize
                        THEN (IF ind = h[1] THEN h ELSE <<ind>>)
                        ELSE h
         IN hof_update(h2, population, i + 1, b, options)

RECURSIVE FirstMax(_, _, _, _, _)
\* max(aspirants, key=fitness): the first aspirant of maximal fitness
FirstMax(aspirants, j, best, b, options) ==
    IF j > Len(aspirants) THEN best
    ELSE FirstMax(aspirants, j + 1,
                  IF evalCargo(aspirants[j], b, options) > evalCargo(best, b, options)
                  THEN aspirants[j] ELSE best,
                  b, options)

\* tools.selTournament: the individuals one tournament can choose
\* (tournsize aspirants drawn with replacement)
selTournament(individuals, b, options) ==
    { LET aspirants == [j \in 1..tournsize |-> individuals[draw[j]]]
      IN FirstMax(aspirants, 2, aspirants[1], b, options)
      : draw \in [1..tournsize -> 1..Len(individuals)] }

\* tools.cxOnePoint on a pair: cxpoint = random.randint(1, size - 1);
\* the tails from cxpoint on are swapped (cxpoint 0 stands for "not mated")
cxOnePoint(ind1, ind2, cxpoint) ==
    IF cxpoint = 0 THEN <<ind1, ind2>>
    ELSE << [k \in 1..Len(ind1) |-> IF k > cxpoint THEN ind2[k] ELSE ind1[k]],
            [k \in 1..Len(ind2) |-> IF k > cxpoint THEN ind1[k] ELSE ind2[k]] >>

\* the crossover points random.randint(1, size - 1) can return;
\* {} when the range is empty (randint raises ValueError)
CxPoints(size) == 1..(size - 1)

\* tools.mutFlipBit: every gene whose mask bit is set is flipped
mutFlipBit(individual, mask) ==
    [k \in 1..Len(individual) |-> IF mask[k] = 1 THEN 1 - individual[k]
                                  ELSE individual[k]]

\* load_optimal_cargo, lines 95-97: load the selected items in catalog order
RECURSIVE load_selected(_, _, _, _)
load_selected(b, best_individual, options, i) ==
    IF i > Len(options) \/ i > Len(best_individual) THEN b
    ELSE load_selected(IF best_individual[i] = 1 THEN load_cargo(b, options[i]) ELSE b,
                       best_individual, options, i + 1)

\* controller.py lines 73-75: the non-optimized loading loop
RECURSIVE greedy_load(_, _, _)
greedy_load(b, options, i) ==
    IF i > Len(options) THEN b
    ELSE LET r == can_load(b, options[i])
         IN greedy_load(IF r.ret THEN load_cargo(r.self, options[i]) ELSE r.self,
                        options, i + 1)

----------------------------------------------------------------------------
(* SpecCargo: one boat and one catalog *)

\* the cargo side before any call
CargoIdle ==
    /\ pc = "start"
    /\ pop = <<>>
    /\ hof = <<>>
    /\ gen = 0
    /\ result = <<>>
    /\ last_load = <<>>
    /\ evaluated = {}

Fresh(b) == b.cargo_list = <<>> /\ b.current_weight = 0 /\ b.current_space = 0
            /\ b.total_value = 0 /\ b.cargo = <<>>

\* optimize_cargo lines 68-75, first part: the random population is drawn,
\* evaluated, and shown to the hall of fame
optimize_cargo_population ==
    /\ pc = "start" /\ Fresh(boat)
    /\ \E p \in [1..PopSize -> BitVectors(Len(cargo_options))] :
          /\ pop' = p
          /\ hof' = hof_update(<<>>, p, 1, boat, cargo_options)
          /\ evaluated' = { p[k] : k \in 1..PopSize }
    /\ gen' = 0
    /\ pc' = IF Generations = 0 THEN "evolved" ELSE "select"
    /\ UNCHANGED <<cargo_options, boat, result, last_load, simVars>>

\* eaSimple: offspring = toolbox.select(population, len(population))
eaSimple_select ==
    /\ pc = "select"
    /\ pop' \in [1..Len(pop) -> selTournament(pop, boat, cargo_options)]
    /\ pc' = "mate"
    /\ UNCHANGED <<cargo_options, boat, hof, gen, result, last_load, evaluated, simVars>>

NPairs == PopSize \div 2

\* varAnd, crossover loop: each pair (offspring[i-1], offspring[i]), i odd,
\* is mated with probability cxpb; a mating whose randint range is empty raises.
eaSimple_mate ==
    /\ pc = "mate"
    /\ \E mated \in SUBSET (1..NPairs) :
          IF mated # {} /\ CxPoints(Len(cargo_options)) = {}
          THEN /\ pc' = "raised"
               /\ UNCHANGED pop
          ELSE /\ \E pt \in [mated -> CxPoints(Len(cargo_options))] :
                     pop' =
                        [k \in 1..Len(pop) |->
                           LET pair == (k + 1) \div 2
                               c == IF pair \in mated THEN pt[pair] ELSE 0
                           IN IF pair > NPairs THEN pop[k]
                              ELSE cxOnePoint(pop[2 * pair - 1],
                                              pop[2 * pair], c)[k - 2 * pair + 2]]
               /\ pc' = "mutate"
    /\ UNCHANGED <<cargo_options, boat, hof, gen, result, last_load, evaluated, simVars>>

\* varAnd, mutation loop, then the rest of the generation: the offspring are
\* evaluated, shown to the hall of fame, and replace the population.
eaSimple_mutate ==
    /\ pc = "mutate"
    /\ \E mask \in [1..Len(pop) -> BitVectors(Len(cargo_options))] :
          LET off == [k \in 1..Len(pop) |-> mutFlipBit(pop[k], mask[k])]
          IN /\ hof' = hof_update(hof, off, 1, boat, cargo_options)
             /\ pop' = off
             /\ evaluated' = evaluated \cup { off[k] : k \in 1..Len(off) }
    /\ gen' = gen + 1
    /\ pc' = IF gen + 1 >= Generations THEN "evolved" ELSE "select"
    /\ UNCHANGED <<cargo_options, boat, result, last_load, simVars>>

\* optimize_cargo lines 77-80: best = hof[0], best_fitness = evalCargo(best)
optimize_cargo_return ==
    /\ pc = "evolved"
    /\ result' = <<hof[1], evalCargo(hof[1], boat, cargo_options)>>
    /\ pc' = "optimized"
    /\ UNCHANGED <<cargo_options, boat, pop, hof, gen, last_load, evaluated, simVars>>

\* load_optimal_cargo lines 91-98, after optimize_cargo returned
load_optimal_cargo ==
    /\ pc = "optimized"
    /\ boat' = load_selected(boat, result[1], cargo_options, 1)
    /\ pc' = "loaded"
    /\ UNCHANGED <<cargo_options, pop, hof, gen, result, last_load, evaluated, simVars>>

\* controller.py lines 71-75 (USE_OPTIMIZATION False) on a new boat
greedy_loading ==
    /\ pc = "start" /\ Fresh(boat)
    /\ boat' = greedy_load(boat, cargo_options, 1)
    /\ pc' = "greedy"
    /\ UNCHANGED <<cargo_options, pop, hof, gen, result, last_load, evaluated, simVars>>

\* a direct Boat.load_cargo(cargo) call, with any catalog item
boat_load_cargo ==
    /\ pc \in {"start", "loaded", "greedy", "called"}
    /\ \E i \in 1..Len(cargo_options) :
          /\ boat' = load_cargo(boat, cargo_options[i])
          /\ last_load' = <<cargo_options[i]>>
    /\ pc' = "called"
    /\ UNCHANGED <<cargo_options, pop, hof, gen, result, evaluated, simVars>>

NextCargo ==
    \/ optimize_cargo_population
    \/ eaSimple_select
    \/ eaSimple_mate
    \/ eaSimple_mutate
    \/ optimize_cargo_return
    \/ load_optimal_cargo
    \/ greedy_loading
    \/ boat_load_cargo

----------------------------------------------------------------------------
(* Exact fractions for the code's true divisions *)

RECURSIVE GCD(_, _)
GCD(a, b) == IF b = 0 THEN a ELSE GCD(b, a % b)

\* n / d for d > 0, in lowest terms
Frac(n, d) == LET g == GCD(n, d) IN <<n \div g, d \div g>>

FracAdd(x, y) == Frac(x[1] * y[2] + y[1] * x[2], x[2] * y[2])

RECURSIVE SumSeq(_, _)
SumSeq(q, i) == IF i > Len(q) THEN 0 ELSE q[i] + SumSeq(q, i + 1)

\* mutant of fee_of: the fee ignores the wait
fee_of_flat(bf, wait_time) == Frac(bf, 1)

\* fee = self.base_fee / (1 + wait_time)
fee_of(bf, wait_time) == Frac(bf, 1 + wait_time)

\* statistics.mean(self.wait_times) if self.wait_times else 0
average_wait(wts) == IF Len(wts) = 0 THEN <<0, 1>> ELSE Frac(SumSeq(wts, 1), Len(wts))

----------------------------------------------------------------------------
(* The simpy environment as controller.py uses it *)

\* An event of the queue. simpy orders events by (time, priority, insertion
\* order); priority 0 is URGENT (Initialize, the until-event), 1 is NORMAL.
\* The event a process triggers when its generator returns has no callback
\* and changes nothing, so it is left out; the event of a process that
\* raised is kept ("Process").
Event(time, kind, proc) ==
    [time |-> time,
     priority |-> IF kind \in {"Initialize", "StopSimulation"} THEN 0 ELSE 1,
     kind |-> kind, proc |-> proc]

\* mutant of schedule: the event goes ahead of the queued events of its time
\* and priority
schedule_lifo(q, ev) ==
    LET k == Cardinality({ i \in 1..Len(q) :
                             \/ q[i].time < ev.time
                             \/ q[i].time = ev.time /\ q[i].priority < ev.priority })
    IN SubSeq(q, 1, k) \o <<ev>> \o SubSeq(q, k + 1, Len(q))

\* env.schedule: the event goes behind every queued event that is due no later
\* with a priority no lower (insertion order breaks ties)
schedule(q, ev) ==
    LET k == Cardinality({ i \in 1..Len(q) :
                             \/ q[i].time < ev.time
                             \/ q[i].time = ev.time /\ q[i].priority <= ev.priority })
    IN SubSeq(q, 1, k) \o <<ev>> \o SubSeq(q, k + 1, Len(q))

\* mutant of trigger_put: the slot is granted without looking at the capacity
trigger_put_unbounded(l, q, t) ==
    IF Len(l.put_queue) > 0
    THEN [lock |-> [l EXCEPT !.users = Append(@, Head(l.put_queue)),
                             !.put_queue = Tail(@)],
          queue |-> schedule(q, Event(t, "Request", Head(l.put_queue)))]
    ELSE [lock |-> l, queue |-> q]

\* mutant of trigger_put: the newest request of put_queue is served first
trigger_put_lifo(l, q, t) ==
    IF Len(l.put_queue) > 0 /\ Len(l.users) < l.capacity
    THEN [lock |-> [l EXCEPT !.users = Append(@, l.put_queue[Len(l.put_queue)]),
                             !.put_queue = SubSeq(@, 1, Len(@) - 1)],
          queue |-> schedule(q, Event(t, "Request", l.put_queue[Len(l.put_queue)]))]
    ELSE [lock |-> l, queue |-> q]

\* Resource._trigger_put: the head of put_queue is offered a slot
\* (Resource._do_put returns None, so the loop stops after the first request);
\* a granted request is scheduled at the current time. Gives [lock, queue].
trigger_put(l, q, t) ==
    IF Len(l.put_queue) > 0 /\ Len(l.users) < l.capacity
    THEN [lock |-> [l EXCEPT !.users = Append(@, Head(l.put_queue)),
                             !.put_queue = Tail(@)],
          queue |-> schedule(q, Event(t, "Request", Head(l.put_queue)))]
    ELSE [lock |-> l, queue |-> q]

\* self.lock.request(): the request joins put_queue, then _trigger_put runs
request(l, q, t, proc) ==
    trigger_put([l EXCEPT !.put_queue = Append(@, proc)], q, t)

\* mutant of release: the freed slot is handed on one time unit late
release_delayed(l, q, t, proc) ==
    [lock |-> [l EXCEPT !.users = SelectSeq(@, LAMBDA u : u # proc)],
     queue |-> schedule(q, Event(t + 1, "Release", proc))]

\* mutant of release: the slot is given back without a Release event
release_silent(l, q, t, proc) ==
    [lock |-> [l EXCEPT !.users = SelectSeq(@, LAMBDA u : u # proc)],
     queue |-> q]

\* leaving the `with` block: Resource.release removes the request from users
\* and schedules the Release event, whose callback is _trigger_put
release(l, q, t, proc) ==
    [lock |-> [l EXCEPT !.users = SelectSeq(@, LAMBDA u : u # proc)],
     queue |-> schedule(q, Event(t, "Release", proc))]

----------------------------------------------------------------------------
(* Inputs of a run *)

\* run(until=...)
Horizons == {3, 12}
\* num_locks
LockCounts == {1, 2}
\* random.expovariate(arrival_rate): drawn inter-arrival times
InterArrivals == {0, 1}
\* random.expovariate(1.0 / avg_service_time): drawn service times
ServiceTimes == {0, 5}
\* random_boat as drawn in a run (the load of a ship still varies with the
\* optimizer's outcome)
RunBoats == { Boat("Boat_1", 5000, 300) }
\* an arrival_rate and an avg_service_time of run_all_scenarios_concurrent
\* (1 stands for any positive rate)
valid_arrival_rate == 1
valid_avg_service_time == 5
\* cargo_options of a run
RunCatalogs == { <<>>, <<CargoA, CargoB>> }

\* a draw at time t that falls behind the horizon (expovariate is unbounded)
Beyond(t) == until - t + 1

\* the inter-arrival draws at time t: once MaxShips ships were spawned the next
\* arrival falls behind the horizon
DrawInterArrival(spawned, t) ==
    IF spawned >= MaxShips THEN {Beyond(t)} ELSE InterArrivals \cup {Beyond(t)}

\* the service-time draws at time t
DrawService(t) == ServiceTimes \cup {Beyond(t)}

\* random.expovariate(lambd) returns -log(1 - random()) / lambd: ZeroDivisionError
\* for lambd = 0, and for lambd < 0 the draws change their sign. `draws` are the
\* draws of a positive rate. Gives the outcomes [raised, value].
expovariate(lambd, draws) ==
    IF lambd = 0
    THEN { [raised |-> TRUE, value |-> 0] }
    ELSE { [raised |-> FALSE, value |-> IF lambd > 0 THEN x ELSE -x] : x \in draws }

\* the process step that draws a delay and yields env.timeout(delay) raises:
\* the draw itself failed, or simpy's Timeout refuses a negative delay
draw_raises(d) == d.raised \/ d.value < 0

\* what optimize_cargo can return: hof[0] is an individual of some generation
OptimizeResults(options) == BitVectors(Len(options))

\* whether optimize_cargo can raise: cxOnePoint on individuals too short to cut
OptimizeCanRaise(options) == CxPoints(Len(options)) = {}

\* the ship after lines 68-75 of process_ship_with_cargo
LoadedShips(ship, options) ==
    IF USE_OPTIMIZATION
    THEN { load_selected(ship, best, options, 1) : best \in OptimizeResults(options) }
    ELSE { greedy_load(ship, options, 1) }

----------------------------------------------------------------------------
(* Spec: one simulation run *)

\* CanalSimulation.__init__: simpy.Resource raises ValueError for a capacity
\* that is not positive (lock then only records the capacity asked for);
\* nothing else is looked at
CanalSimulation(num_locks, service_time, fee) ==
    /\ run_pc = IF num_locks <= 0 THEN "rejected" ELSE "constructed"
    /\ avg_service_time = service_time
    /\ base_fee = fee
    /\ now = 0
    /\ queue = <<>>
    /\ lock = [capacity |-> num_locks, users |-> <<>>, put_queue |-> <<>>]
    /\ procs = <<>>
    /\ wait_times = <<>>
    /\ total_fees_collected = <<0, 1>>
    /\ ship_count = 0
    /\ ship_logs = <<>>
    /\ cargo_logs = <<>>
    /\ canal_logs = <<>>
    /\ emitted = <<>>
    /\ cargo_emitted = <<>>
    /\ request_order = <<>>
    /\ queued = {}

\* run_simulation with a configuration of run_all_scenarios_concurrent
SimConstructed ==
    /\ \E n \in LockCounts : CanalSimulation(n, valid_avg_service_time, default_base_fee)
    /\ until \in Horizons
    /\ arrival_rate = valid_arrival_rate

Init ==
    /\ cargo_options \in RunCatalogs
    /\ boat = Boat("Boat_1", 5000, 300)
    /\ CargoIdle
    /\ SimConstructed

histVars == <<emitted, cargo_emitted, request_order, queued>>
logVars == <<wait_times, total_fees_collected, ship_count, ship_logs, cargo_logs,
             canal_logs, histVars>>
countVars == <<wait_times, total_fees_collected, ship_count, ship_logs, cargo_logs,
               canal_logs, emitted, cargo_emitted>>

\* mutant of run_start: the run stops behind the events due at the horizon
run_start_inclusive ==
    /\ run_pc = "constructed"
    /\ queue' = schedule(schedule(queue, Event(now, "Initialize", 0)),
                         Event(until + 1, "StopSimulation", 0))
    /\ run_pc' = "running"
    /\ UNCHANGED <<cargo_options, cargoVars, until, configVars, now, lock, procs, logVars>>

\* run, lines 126-127: the arrival generator is started and env.run(until)
\* schedules its stop event
run_start ==
    /\ run_pc = "constructed"
    /\ queue' = schedule(schedule(queue, Event(now, "Initialize", 0)),
                         Event(until, "StopSimulation", 0))
    /\ run_pc' = "running"
    /\ UNCHANGED <<cargo_options, cargoVars, until, configVars, now, lock, procs, logVars>>

Turn(kind) ==
    /\ run_pc = "running"
    /\ Len(queue) > 0
    /\ Head(queue).kind = kind

\* ship_arrivals up to its first yield
generator_start ==
    /\ Turn("Initialize") /\ Head(queue).proc = 0
    /\ now' = Head(queue).time
    /\ \E interarrival \in expovariate(arrival_rate, DrawInterArrival(Len(procs), now')) :
          queue' = schedule(Tail(queue),
                            IF draw_raises(interarrival)
                            THEN Event(now', "Process", 0)
                            ELSE Event(now' + interarrival.value, "Timeout", 0))
    /\ UNCHANGED <<cargo_options, cargoVars, run_pc, until, configVars, lock, procs, logVars>>

\* ship_arrivals, lines 123-124 and the next round of the loop
ship_arrival ==
    /\ Turn("Timeout") /\ Head(queue).proc = 0
    /\ Len(procs) < MaxShips
    /\ now' = Head(queue).time
    /\ \E ship \in RunBoats :
          procs' = Append(procs, [pc |-> "Spawned", ship |-> ship, arrival_time |-> -1,
                                  entry_time |-> -1, wait_time |-> -1, fee |-> <<0, 1>>,
                                  service_time |-> -1, exit_time |-> -1])
    /\ \E interarrival \in expovariate(arrival_rate, DrawInterArrival(Len(procs) + 1, now')) :
          queue' = schedule(schedule(Tail(queue), Event(now', "Initialize", Len(procs) + 1)),
                            IF draw_raises(interarrival)
                            THEN Event(now', "Process", 0)
                            ELSE Event(now' + interarrival.value, "Timeout", 0))
    /\ UNCHANGED <<cargo_options, cargoVars, run_pc, until, configVars, lock, logVars>>

\* process_ship_with_cargo, lines 66-78: arrival, cargo loading, lock request
ship_start ==
    /\ Turn("Initialize") /\ Head(queue).proc # 0
    /\ now' = Head(queue).time
    /\ LET s == Head(queue).proc IN
       \/ \E loaded \in LoadedShips(procs[s].ship, cargo_options) :
             LET r == request(lock, Tail(queue), now', s) IN
             /\ procs' = [procs EXCEPT ![s].pc = "Waiting", ![s].ship = loaded,
                                       ![s].arrival_time = now']
             /\ lock' = r.lock
             /\ queue' = r.queue
             /\ request_order' = Append(request_order, s)
             /\ queued' = IF \E i \in 1..Len(r.lock.put_queue) : r.lock.put_queue[i] = s
                          THEN queued \cup {s} ELSE queued
       \/ /\ USE_OPTIMIZATION /\ OptimizeCanRaise(cargo_options)
          /\ procs' = [procs EXCEPT ![s].pc = "Failed", ![s].arrival_time = now']
          /\ queue' = schedule(Tail(queue), Event(now', "Process", s))
          /\ UNCHANGED <<lock, request_order, queued>>
    /\ UNCHANGED <<cargo_options, cargoVars, run_pc, until, configVars, countVars>>

\* mutant of ship_enter: the ship is counted when it enters the lock
ship_enter_counted ==
    /\ Turn("Request")
    /\ now' = Head(queue).time
    /\ LET s == Head(queue).proc
           wait_time == now' - procs[s].arrival_time
           fee == fee_of(base_fee, wait_time)
       IN /\ wait_times' = Append(wait_times, wait_time)
          /\ ship_count' = ship_count + 1
          /\ total_fees_collected' = FracAdd(total_fees_collected, fee)
          /\ \E service_time \in expovariate(avg_service_time, DrawService(now')) :
                IF draw_raises(service_time)
                THEN LET r == release(lock, Tail(queue), now', s) IN
                     /\ procs' = [procs EXCEPT ![s].pc = "Failed", ![s].entry_time = now',
                                               ![s].wait_time = wait_time, ![s].fee = fee]
                     /\ lock' = r.lock
                     /\ queue' = schedule(r.queue, Event(now', "Process", s))
                ELSE /\ procs' = [procs EXCEPT ![s].pc = "InService", ![s].entry_time = now',
                                               ![s].wait_time = wait_time, ![s].fee = fee,
                                               ![s].service_time = service_time.value]
                     /\ queue' = schedule(Tail(queue),
                                          Event(now' + service_time.value, "Timeout", s))
                     /\ lock' = lock
    /\ UNCHANGED <<cargo_options, cargoVars, run_pc, until, configVars,
                   ship_logs, cargo_logs, canal_logs, histVars>>

\* mutant of ship_enter: the fee is collected but the wait time is not recorded
ship_enter_unrecorded ==
    /\ Turn("Request")
    /\ now' = Head(queue).time
    /\ LET s == Head(queue).proc
           wait_time == now' - procs[s].arrival_time
           fee == fee_of(base_fee, wait_time)
       IN /\ wait_times' = wait_times
          /\ total_fees_collected' = FracAdd(total_fees_collected, fee)
          /\ \E service_time \in expovariate(avg_service_time, DrawService(now')) :
                IF draw_raises(service_time)
                THEN LET r == release(lock, Tail(queue), now', s) IN
                     /\ procs' = [procs EXCEPT ![s].pc = "Failed", ![s].entry_time = now',
                                               ![s].wait_time = wait_time, ![s].fee = fee]
                     /\ lock' = r.lock
                     /\ queue' = schedule(r.queue, Event(now', "Process", s))
                ELSE /\ procs' = [procs EXCEPT ![s].pc = "InService", ![s].entry_time = now',
                                               ![s].wait_time = wait_time, ![s].fee = fee,
                                               ![s].service_time = service_time.value]
                     /\ queue' = schedule(Tail(queue),
                                          Event(now' + service_time.value, "Timeout", s))
                     /\ lock' = lock
    /\ UNCHANGED <<cargo_options, cargoVars, run_pc, until, configVars, ship_count,
                   ship_logs, cargo_logs, canal_logs, histVars>>

\* process_ship_with_cargo, lines 79-86: the request was granted
ship_enter ==
    /\ Turn("Request")
    /\ now' = Head(queue).time
    /\ LET s == Head(queue).proc
           wait_time == now' - procs[s].arrival_time
           fee == fee_of(base_fee, wait_time)
       IN /\ wait_times' = Append(wait_times, wait_time)
          /\ total_fees_collected' = FracAdd(total_fees_collected, fee)
          /\ \E service_time \in expovariate(avg_service_time, DrawService(now')) :
                IF draw_raises(service_time)
                THEN LET r == release(lock, Tail(queue), now', s) IN
                     /\ procs' = [procs EXCEPT ![s].pc = "Failed", ![s].entry_time = now',
                                               ![s].wait_time = wait_time, ![s].fee = fee]
                     /\ lock' = r.lock
                     /\ queue' = schedule(r.queue, Event(now', "Process", s))
                ELSE /\ procs' = [procs EXCEPT ![s].pc = "InService", ![s].entry_time = now',
                                               ![s].wait_time = wait_time, ![s].fee = fee,
                                               ![s].service_time = service_time.value]
                     /\ queue' = schedule(Tail(queue),
                                          Event(now' + service_time.value, "Timeout", s))
                     /\ lock' = lock
    /\ UNCHANGED <<cargo_options, cargoVars, run_pc, until, configVars, ship_count,
                   ship_logs, cargo_logs, canal_logs, histVars>>

\* mutant of ship_exit: the ship departs without giving its lock back
ship_exit_keeps_lock ==
    /\ Turn("Timeout") /\ Head(queue).proc # 0
    /\ now' = Head(queue).time
    /\ LET s == Head(queue).proc
           p == procs[s]
           ship == p.ship
           cargo_value == Totals([i \in 1..Len(ship.cargo_list) |-> 1], ship.cargo_list, 1).value
       IN /\ ship_logs' = Append(ship_logs,
                [Ship |-> ship.name, Arrival |-> p.arrival_time, Entry |-> p.entry_time,
                 Wait_Time |-> p.wait_time, Service_Time |-> p.service_time,
                 Exit |-> now', Fee |-> p.fee, Cargo_Value |-> cargo_value,
                 Cargo_Weight |-> ship.current_weight, Cargo_Space |-> ship.current_space,
                 Free_Weight |-> ship.max_weight - ship.current_weight,
                 Free_Space |-> ship.max_space - ship.current_space])
          /\ emitted' = Append(emitted, s)
          /\ cargo_logs' = cargo_logs \o
                [i \in 1..Len(ship.cargo_list) |->
                   LET cargo == ship.cargo_list[i] IN
                   [Ship |-> ship.name, Cargo |-> cargo.name, Category |-> cargo.category,
                    Weight |-> cargo.weight, Space |-> cargo.space_required,
                    Value |-> cargo.value_per_unit * cargo.weight]]
          /\ cargo_emitted' = cargo_emitted \o [i \in 1..Len(ship.cargo_list) |-> s]
          /\ ship_count' = ship_count + 1
          /\ procs' = [procs EXCEPT ![s].pc = "Departed", ![s].exit_time = now']
          /\ lock' = lock
          /\ queue' = Tail(queue)
    /\ UNCHANGED <<cargo_options, cargoVars, run_pc, until, configVars, wait_times,
                   total_fees_collected, canal_logs, request_order, queued>>

\* mutant of ship_exit: the ship record is written twice
ship_exit_logged_twice ==
    /\ Turn("Timeout") /\ Head(queue).proc # 0
    /\ now' = Head(queue).time
    /\ LET s == Head(queue).proc
           p == procs[s]
           ship == p.ship
           cargo_value == Totals([i \in 1..Len(ship.cargo_list) |-> 1], ship.cargo_list, 1).value
           r == release(lock, Tail(queue), now', s)
       IN /\ ship_logs' = ship_logs \o [k \in 1..2 |->
                [Ship |-> ship.name, Arrival |-> p.arrival_time, Entry |-> p.entry_time,
                 Wait_Time |-> p.wait_time, Service_Time |-> p.service_time,
                 Exit |-> now', Fee |-> p.fee, Cargo_Value |-> cargo_value,
                 Cargo_Weight |-> ship.current_weight, Cargo_Space |-> ship.current_space,
                 Free_Weight |-> ship.max_weight - ship.current_weight,
                 Free_Space |-> ship.max_space - ship.current_space]]
          /\ emitted' = Append(Append(emitted, s), s)
          /\ cargo_logs' = cargo_logs \o
                [i \in 1..Len(ship.cargo_list) |->
                   LET cargo == ship.cargo_list[i] IN
                   [Ship |-> ship.name, Cargo |-> cargo.name, Category |-> cargo.category,
                    Weight |-> cargo.weight, Space |-> cargo.space_required,
                    Value |-> cargo.value_per_unit * cargo.weight]]
          /\ cargo_emitted' = cargo_emitted \o [i \in 1..Len(ship.cargo_list) |-> s]
          /\ ship_count' = ship_count + 1
          /\ procs' = [procs EXCEPT ![s].pc = "Departed", ![s].exit_time = now']
          /\ lock' = r.lock
          /\ queue' = r.queue
    /\ UNCHANGED <<cargo_options, cargoVars, run_pc, until, configVars, wait_times,
                   total_fees_collected, canal_logs, request_order, queued>>

\* process_ship_with_cargo, lines 87-113 and the end of the `with` block
ship_exit ==
    /\ Turn("Timeout") /\ Head(queue).proc # 0
    /\ now' = Head(queue).time
    /\ LET s == Head(queue).proc
           p == procs[s]
           ship == p.ship
           cargo_value == Totals([i \in 1..Len(ship.cargo_list) |-> 1], ship.cargo_list, 1).value
           r == release(lock, Tail(queue), now', s)
       IN /\ ship_logs' = Append(ship_logs,
                [Ship |-> ship.name, Arrival |-> p.arrival_time, Entry |-> p.entry_time,
                 Wait_Time |-> p.wait_time, Service_Time |-> p.service_time,
                 Exit |-> now', Fee |-> p.fee, Cargo_Value |-> cargo_value,
                 Cargo_Weight |-> ship.current_weight, Cargo_Space |-> ship.current_space,
                 Free_Weight |-> ship.max_weight - ship.current_weight,
                 Free_Space |-> ship.max_space - ship.current_space])
          /\ emitted' = Append(emitted, s)
          /\ cargo_logs' = cargo_logs \o
                [i \in 1..Len(ship.cargo_list) |->
                   LET cargo == ship.cargo_list[i] IN
                   [Ship |-> ship.name, Cargo |-> cargo.name, Category |-> cargo.category,
                    Weight |-> cargo.weight, Space |-> cargo.space_required,
                    Value |-> cargo.value_per_unit * cargo.weight]]
          /\ cargo_emitted' = cargo_emitted \o [i \in 1..Len(ship.cargo_list) |-> s]
          /\ ship_count' = ship_count + 1
          /\ procs' = [procs EXCEPT ![s].pc = "Departed", ![s].exit_time = now']
          /\ lock' = r.lock
          /\ queue' = r.queue
    /\ UNCHANGED <<cargo_options, cargoVars, run_pc, until, configVars, wait_times,
                   total_fees_collected, canal_logs, request_order, queued>>

\* mutant of lock_release: the Release event is processed without serving the
\* queue
lock_release_idle ==
    /\ Turn("Release")
    /\ now' = Head(queue).time
    /\ queue' = Tail(queue)
    /\ UNCHANGED <<cargo_options, cargoVars, run_pc, until, configVars, lock, procs, logVars>>

\* the Release event is processed: its callback _trigger_put serves the queue
lock_release ==
    /\ Turn("Release")
    /\ now' = Head(queue).time
    /\ LET r == trigger_put(lock, Tail(queue), now') IN
       /\ lock' = r.lock
       /\ queue' = r.queue
    /\ UNCHANGED <<cargo_options, cargoVars, run_pc, until, configVars, procs, logVars>>

\* the event of a failed process is processed: nobody waits on it, so
\* env.step re-raises the error and run() never returns
process_failed ==
    /\ Turn("Process")
    /\ now' = Head(queue).time
    /\ queue' = Tail(queue)
    /\ run_pc' = "crashed"
    /\ UNCHANGED <<cargo_options, cargoVars, until, configVars, lock, procs, logVars>>

\* the until-event stops env.run; run, lines 128-134, writes the summary
run_stop ==
    /\ Turn("StopSimulation")
    /\ now' = Head(queue).time
    /\ queue' = Tail(queue)
    /\ canal_logs' = Append(canal_logs,
            [Total_Ships |-> ship_count,
             Average_Wait_Time |-> average_wait(wait_times),
             Total_Fees_Collected |-> total_fees_collected,
             Simulation_Time |-> until])
    /\ run_pc' = "finished"
    /\ UNCHANGED <<cargo_options, cargoVars, until, configVars, lock, procs, wait_times,
                   total_fees_collected, ship_count, ship_logs, cargo_logs, histVars>>

Next ==
    \/ run_start
    \/ generator_start
    \/ ship_arrival
    \/ ship_start
    \/ ship_enter
    \/ ship_exit
    \/ lock_release
    \/ process_failed
    \/ run_stop

Spec == Init /\ [][Next]_vars

----------------------------------------------------------------------------
(* Properties of a run (Spec) *)

InSeq(q, x) == \E i \in 1..Len(q) : q[i] = x

\* the request of process s was granted: it holds a slot or has given it back
Granted(s) == InSeq(lock.users, s) \/ procs[s].pc = "Departed"

Entered(s) == procs[s].pc \in {"InService", "Departed"}

\* C1: in every reachable state of a run the number of locks in use is between
\* 0 and the configured capacity (num_locks), and no process holds two slots.
C1_InUseWithinCapacity ==
    /\ lock.capacity \in LockCounts
    /\ 0 <= Len(lock.users) /\ Len(lock.users) <= lock.capacity
    /\ \A i, j \in 1..Len(lock.users) : lock.users[i] = lock.users[j] => i = j

\* the pool is full, with two locks, while a ship waits
C1_Witness ==
    /\ lock.capacity = 2 /\ Len(lock.users) = 2 /\ Len(lock.put_queue) > 0

\* C2: FIFO. If ship a had to wait and ship b called request() after a, then b
\* is never granted while a is not, b never enters before a has entered, a's
\* entry_time is no later than b's, and a stands before b in the wait queue.
C2_FifoFairness ==
    \A i, j \in 1..Len(request_order) :
       LET a == request_order[i]
           b == request_order[j]
       IN (i < j /\ a \in queued) =>
             /\ Granted(b) => Granted(a)
             /\ Entered(b) => Entered(a) /\ procs[a].entry_time <= procs[b].entry_time
             /\ InSeq(lock.put_queue, b) /\ InSeq(lock.put_queue, a) =>
                   \E m, n \in 1..Len(lock.put_queue) :
                      m < n /\ lock.put_queue[m] = a /\ lock.put_queue[n] = b

\* two ships both had to wait, one after the other, and both have entered a lock
C2_Witness ==
    \E i, j \in 1..Len(request_order) :
       LET a == request_order[i]
           b == request_order[j]
       IN /\ i < j /\ a \in queued /\ b \in queued
          /\ Entered(a) /\ Entered(b)
          /\ procs[a].wait_time > 0 /\ procs[b].wait_time > procs[a].wait_time

\* at the end of the run, ship s is still waiting for a lock or its service
\* would complete after the horizon
CutOff(s) ==
    \/ procs[s].pc = "Waiting"
    \/ procs[s].pc = "InService" /\ procs[s].entry_time + procs[s].service_time > until

\* C4: at the end of run(until=horizon), a ship that is still waiting or whose
\* service completes after the horizon has no ship_logs entry and no cargo_logs
\* entry and is not counted: "Total Ships" = ship_count = the number of ship
\* records, each of them written by a ship that departed by the horizon.
C4_HorizonCutoff ==
    run_pc = "finished" =>
       /\ \A s \in 1..Len(procs) :
             CutOff(s) => ~InSeq(emitted, s) /\ ~InSeq(cargo_emitted, s)
       /\ canal_logs[1].Total_Ships = ship_count
       /\ ship_count = Len(ship_logs)
       /\ ship_count = Cardinality({ s \in 1..Len(procs) : procs[s].pc = "Departed" })
       /\ \A i \in 1..Len(ship_logs) :
             /\ ~CutOff(emitted[i])
             /\ ship_logs[i].Exit <= until

\* a finished run with a departed ship, a ship cut off in service and a ship
\* cut off waiting
C4_Witness ==
    /\ run_pc = "finished" /\ ship_count > 0
    /\ \E s, w \in 1..Len(procs) :
          /\ procs[s].pc = "InService" /\ CutOff(s) /\ Len(procs[s].ship.cargo_list) > 0
          /\ procs[w].pc = "Waiting" /\ InSeq(lock.put_queue, w)

RECURSIVE FeeSum(_, _)
FeeSum(logs, i) ==
    IF i > Len(logs) THEN <<0, 1>> ELSE FracAdd(logs[i].Fee, FeeSum(logs, i + 1))

\* C5: the summary's "Average Wait Time" and "Total Fees Collected" are computed
\* over the departed ships only (the ships with a record in ship_logs).
C5_SummaryOverDepartedOnly ==
    run_pc = "finished" =>
       /\ canal_logs[1].Total_Fees_Collected = FeeSum(ship_logs, 1)
       /\ canal_logs[1].Average_Wait_Time =
             average_wait([i \in 1..Len(ship_logs) |-> ship_logs[i].Wait_Time])

\* the two ships of the scenario: one lock, base_fee 1000, arrivals at 0 and 1,
\* service time 5 for both, both departed
C6_Scenario ==
    /\ lock.capacity = 1 /\ base_fee = 1000
    /\ Len(procs) >= 2
    /\ procs[1].arrival_time = 0 /\ procs[2].arrival_time = 1
    /\ procs[1].service_time = 5 /\ procs[2].service_time = 5
    /\ procs[1].pc = "Departed" /\ procs[2].pc = "Departed"

\* C6: in the scenario the records are ship1 {wait 0, entry 0, exit 5, fee 1000}
\* and ship2 {wait 4, entry 5, exit 10, fee 200}: ship2 enters at the instant
\* ship1 exits.
C6_SchedulingScenario ==
    C6_Scenario =>
       /\ Len(ship_logs) >= 2 /\ emitted[1] = 1 /\ emitted[2] = 2
       /\ ship_logs[1].Wait_Time = 0 /\ ship_logs[1].Entry = 0
       /\ ship_logs[1].Exit = 5 /\ ship_logs[1].Fee = <<1000, 1>>
       /\ ship_logs[2].Wait_Time = 4 /\ ship_logs[2].Entry = 5
       /\ ship_logs[2].Exit = 10 /\ ship_logs[2].Fee = <<200, 1>>
       /\ ship_logs[2].Entry = ship_logs[1].Exit

\* the scenario with exactly two ships, run to its end
C6_Witness ==
    C6_Scenario /\ Len(procs) = 2 /\ run_pc = "finished" /\ Len(ship_logs) = 2

\* the events that were queued before a step and stay queued after it: a turn
\* of env.run pops the head of the queue
StillQueued == IF run_pc = "running" THEN Tail(queue) ELSE queue

\* One step of the run as the event order sees it. The clock does not go
\* backwards, the event invoked is due no later than any queued event, and an
\* event scheduled in this step stands ahead of an event queued before it only
\* if it is due earlier or, with urgentFirst, due at the same time with a more
\* urgent priority.
EventOrderStep(urgentFirst) ==
    /\ now' >= now
    /\ run_pc = "running" =>
          \A i \in 1..Len(queue) : now' = Head(queue).time /\ now' <= queue[i].time
    /\ \A i, j \in 1..Len(queue') :
          (i < j /\ ~InSeq(StillQueued, queue'[i]) /\ InSeq(StillQueued, queue'[j])) =>
             \/ queue'[i].time < queue'[j].time
             \/ /\ urgentFirst
                /\ queue'[i].time = queue'[j].time
                /\ queue'[i].priority < queue'[j].priority

\* C13 as stated: events are invoked in non-decreasing due time, and events due
\* at the same time are invoked in the order they were scheduled, whatever
\* their kind: no event overtakes an event of its time that was queued before.
C13_EventOrder ==
    [][ EventOrderStep(FALSE) ]_vars

\* C13 amended: events are invoked in non-decreasing due time; events due at
\* the same time are invoked by priority first (the start of a newly spawned
\* process is urgent and overtakes the queued arrivals, grants, releases and
\* completions of its time) and in scheduling order within one priority.
C13_EventOrderByPriority ==
    [][ /\ EventOrderStep(TRUE)
        /\ \A i, j \in 1..Len(queue') :
              i < j => \/ queue'[i].time < queue'[j].time
                       \/ /\ queue'[i].time = queue'[j].time
                          /\ queue'[i].priority <= queue'[j].priority ]_vars

\* three events of three kinds are due at the current time: a process start
\* ahead of an arrival and a lock grant
C13_Witness ==
    /\ Len(queue) >= 3
    /\ queue[1].time = now /\ queue[2].time = now /\ queue[3].time = now
    /\ queue[1].kind = "Initialize"
    /\ {queue[2].kind, queue[3].kind} = {"Timeout", "Request"}

\* the service of ship s completes at exactly the horizon
CompletesAtHorizon(s) ==
    procs[s].pc = "InService" /\ procs[s].entry_time + procs[s].service_time = until

\* C14 as stated: run(until=horizon) invokes every event due no later than the
\* horizon: when the run is over no queued event is due at or before the
\* horizon, so a ship whose service completes at exactly the horizon has
\* departed and an arrival due at exactly the horizon has spawned its ship.
C14_HorizonBoundary ==
    run_pc = "finished" =>
       /\ \A i \in 1..Len(queue) : queue[i].time > until
       /\ \A s \in 1..Len(procs) : ~CompletesAtHorizon(s)

\* C14 amended: run(until=horizon) invokes every event due before the horizon
\* and no event due at or after it: the clock of a running simulation stays
\* below the horizon, and when the run is over the clock is the horizon, every
\* event left is due at or after it, and a ship whose service completes at
\* exactly the horizon still holds its lock and has no record.
C14_HorizonExclusive ==
    /\ run_pc = "running" => now < until
    /\ run_pc = "finished" =>
          /\ now = until
          /\ \A i \in 1..Len(queue) : queue[i].time >= until
          /\ \A s \in 1..Len(procs) :
                CompletesAtHorizon(s) =>
                   /\ InSeq(lock.users, s) /\ ~InSeq(emitted, s)
                   /\ \E i \in 1..Len(queue) :
                         queue[i] = Event(until, "Timeout", s)

\* the run is over and the service of a ship completes at exactly the horizon
C14_Witness ==
    /\ run_pc = "finished"
    /\ \E s \in 1..Len(procs) : CompletesAtHorizon(s) /\ procs[s].service_time > 0

\* C16: a ship process that raised an error does not terminate the run: the
\* run is never left by the error, so the other processes are served up to the
\* horizon and the summary is written.
C16_ProcessFailureIsolated ==
    (\E s \in 1..Len(procs) : procs[s].pc = "Failed") => run_pc # "crashed"

\* a ship that had to wait entered at the very time another ship departed
EntersAtADeparture ==
    \A w \in 1..Len(procs) :
       (w \in queued /\ Entered(w)) =>
          \E d \in 1..Len(procs) :
             d # w /\ procs[d].pc = "Departed" /\ procs[d].exit_time = procs[w].entry_time

\* a departure whose Release event is still queued: the slot is given back but
\* not yet handed on
ReleasePending == \E i \in 1..Len(queue) : queue[i].kind = "Release"

\* C18 as stated: a waiting ship enters at exactly the time of the departure
\* that frees its slot, and between any two event turns no lock is idle while
\* a ship waits (in use = capacity).
C18_WorkConserving ==
    /\ EntersAtADeparture
    /\ Len(lock.put_queue) > 0 => Len(lock.users) = lock.capacity

\* C18 amended: a waiting ship enters at exactly the time of the departure
\* that frees its slot; no lock is idle while a ship waits except between the
\* turn of a departure and the turn of its Release event, which is due at the
\* current time, so the slot is idle for no virtual time.
C18_WorkConservingPerInstant ==
    /\ EntersAtADeparture
    /\ (Len(lock.put_queue) > 0 /\ ~ReleasePending) => Len(lock.users) = lock.capacity
    /\ \A i \in 1..Len(queue) : queue[i].kind = "Release" => queue[i].time = now

\* a ship that waited entered at the time of a departure while a third ship
\* still waits, with every lock in use
C18_Witness ==
    /\ Len(lock.put_queue) > 0 /\ Len(lock.users) = lock.capacity /\ ~ReleasePending
    /\ \E w, d \in 1..Len(procs) :
          /\ w \in queued /\ procs[w].pc = "InService" /\ procs[w].wait_time > 0
          /\ procs[d].pc = "Departed" /\ procs[d].exit_time = procs[w].entry_time

\* The states of a ship process. The code has no suspension point between the
\* arrival, the cargo loading and the lock request, so a started ship shows
\* itself as Waiting (Arrived and CargoLoaded passed in the same turn) or, when
\* load_optimal_cargo raised, as Failed (stopped at Arrived).
ShipSteps ==
    { <<"Spawned", "Waiting">>, <<"Spawned", "Failed">>,
      <<"Waiting", "InService">>, <<"InService", "Departed">> }

\* the Release event of process s is scheduled in this step
ReleaseScheduled(s) ==
    /\ \E i \in 1..Len(queue') : queue'[i].kind = "Release" /\ queue'[i].proc = s
    /\ ~\E i \in 1..Len(queue) : queue[i].kind = "Release" /\ queue[i].proc = s

\* C20: a ship moves Arrived, CargoLoaded, Waiting, InService, Departed in
\* that order, with no skipped or backward step and none after Departed; the
\* cargo is loaded before the request and takes no virtual time (a ship
\* granted at once has wait_time 0 and entry_time = arrival_time); a lock is
\* given back exactly at the step from InService to Departed, once, and a ship
\* that holds no lock gives none back.
C20_ShipStateMachine ==
    [][ \A s \in 1..Len(procs) :
          LET p == procs[s]
              q == procs'[s]
          IN /\ Len(procs') >= Len(procs)
             /\ q.pc = p.pc \/ <<p.pc, q.pc>> \in ShipSteps
             /\ p.pc \in {"Departed", "Failed"} => q = p
             /\ (p.pc = "Spawned" /\ q.pc = "Waiting") =>
                   /\ q.arrival_time = now'
                   /\ q.ship \in LoadedShips(p.ship, cargo_options)
                   /\ request_order' = Append(request_order, s)
                   /\ InSeq(lock'.users, s) \/ InSeq(lock'.put_queue, s)
                   /\ InSeq(lock'.users, s) <=> s \notin queued'
             /\ p.pc # "Spawned" => q.ship = p.ship
             /\ (p.pc = "Waiting" /\ q.pc = "InService") =>
                   /\ InSeq(lock.users, s)
                   /\ q.entry_time = now'
                   /\ q.wait_time = q.entry_time - q.arrival_time
                   /\ s \notin queued =>
                         q.wait_time = 0 /\ q.entry_time = q.arrival_time
             /\ (InSeq(lock.users, s) /\ ~InSeq(lock'.users, s))
                   <=> (p.pc = "InService" /\ q.pc = "Departed")
             /\ ReleaseScheduled(s) <=> (p.pc = "InService" /\ q.pc = "Departed")
             /\ ~InSeq(lock.users, s) => ~ReleaseScheduled(s) ]_vars

\* a ship that was granted its lock at once and a ship that had to wait have
\* both departed with cargo on board, and a third ship is still in the queue
C20_Witness ==
    \E a, b, c \in 1..Len(procs) :
       /\ a \notin queued /\ procs[a].pc = "Departed"
       /\ procs[a].wait_time = 0 /\ procs[a].entry_time = procs[a].arrival_time
       /\ b \in queued /\ procs[b].pc = "Departed" /\ procs[b].wait_time > 0
       /\ Len(procs[a].ship.cargo_list) > 0 /\ Len(procs[b].ship.cargo_list) > 0
       /\ procs[c].pc = "Waiting" /\ InSeq(lock.put_queue, c)

----------------------------------------------------------------------------
(* SpecLive: a run whose event loop keeps taking the next event of the queue *)

\* The cargo of a ship has no part in the lock protocol: the runs start with
\* the empty catalog, with which a ship either sails empty or fails in
\* load_optimal_cargo.
LiveInit ==
    /\ cargo_options = <<>>
    /\ boat = Boat("Boat_1", 5000, 300)
    /\ CargoIdle
    /\ SimConstructed

\* env.run processes the next event of the queue as long as there is one
SpecLive == LiveInit /\ [][Next]_vars /\ WF_vars(Next)

\* no service is cut off by the horizon: every ship in a lock completes its
\* service before the run stops
NoServiceCutOff ==
    \A s \in 1..Len(procs) :
       procs[s].pc = "InService" => procs[s].entry_time + procs[s].service_time < until

\* the premises of the liveness claim hold in a state: no service is cut off,
\* and the event loop was not left by the error of a process, so that every
\* queued event is processed in its turn
RunUndisturbed == NoServiceCutOff /\ run_pc # "crashed"

\* ship s has called lock.request() and has not entered a lock yet
Requesting(s) == s <= Len(procs) /\ procs[s].pc = "Waiting"

\* C19: in a run in which the horizon cuts off no service and the queued events
\* keep being processed, every ship that requests a lock is eventually granted
\* one and eventually departs; a waiter leaves the wait queue only by being
\* granted a lock (no timeout path).
C19_EveryRequesterDeparts ==
    /\ []RunUndisturbed =>
          \A s \in 1..MaxShips :
             /\ Requesting(s) ~> (s <= Len(procs) /\ Entered(s))
             /\ Requesting(s) ~> (s <= Len(procs) /\ procs[s].pc = "Departed")
    /\ [][ \A s \in 1..Len(procs) :
              (InSeq(lock.put_queue, s) /\ ~InSeq(lock.put_queue', s))
                 => InSeq(lock.users', s) ]_vars

\* every ship of a full run has departed, two of them after waiting in the
\* queue
C19_Witness ==
    /\ Len(procs) = MaxShips
    /\ \A s \in 1..Len(procs) : procs[s].pc = "Departed"
    /\ \E a, b \in queued : a # b /\ procs[a].wait_time > 0 /\ procs[b].wait_time > 0

----------------------------------------------------------------------------
(* SpecConfig: runs over configurations a caller can hand to CanalSimulation *)
(* and run, the invalid ones included                                        *)

\* arrival_rate, by sign
ArrivalRates == {-1, 0, 1}
\* avg_service_time, by sign
AvgServiceTimes == {-5, 0, 5}
\* num_locks
NumLocks == {0, 1}
\* base_fee
BaseFees == {-1000, 0, 1000}

ConfigInit ==
    /\ cargo_options = <<CargoA, CargoB>>
    /\ boat = Boat("Boat_1", 5000, 300)
    /\ CargoIdle
    /\ \E n \in NumLocks, service_time \in AvgServiceTimes, fee \in BaseFees :
          CanalSimulation(n, service_time, fee)
    /\ until = 12
    /\ arrival_rate \in ArrivalRates

SpecConfig == ConfigInit /\ [][Next]_vars

\* a configuration the specification calls an error
InvalidConfig ==
    \/ arrival_rate <= 0
    \/ avg_service_time <= 0
    \/ lock.capacity <= 0
    \/ base_fee < 0

\* C11: a simulation built with arrival_rate <= 0, avg_service_time <= 0,
\* num_locks <= 0 or base_fee < 0 never reaches a state in which the virtual
\* clock has advanced or a ship has been spawned, and its run never completes.
C11_InvalidConfigRejected ==
    InvalidConfig => now = 0 /\ procs = <<>> /\ run_pc # "finished"

\* x < y for fractions with positive denominators
FracLess(x, y) == x[1] * y[2] < y[1] * x[2]

\* the fees charged so far decrease strictly with the wait, a ship that did not
\* wait paid base_fee, and every fee is above zero
FeesDecreaseAndStayPositive ==
    \A s, t \in { u \in 1..Len(procs) : procs[u].entry_time # -1 } :
       /\ procs[s].wait_time < procs[t].wait_time => FracLess(procs[t].fee, procs[s].fee)
       /\ procs[s].wait_time = 0 => procs[s].fee = <<base_fee, 1>>
       /\ FracLess(<<0, 1>>, procs[s].fee)

\* C12 as stated: for every base_fee >= 0 and wait times w1 < w2 the fee at w1
\* is strictly greater than the fee at w2, the fee at wait 0 is base_fee, and
\* no fee reaches or goes below zero.
C12_FeeFormula ==
    base_fee >= 0 => FeesDecreaseAndStayPositive

\* C12 amended: the same for every base_fee > 0; with base_fee = 0 every fee
\* is zero.
C12_FeeFormulaPositiveBase ==
    /\ base_fee > 0 => FeesDecreaseAndStayPositive
    /\ base_fee = 0 =>
          \A s \in 1..Len(procs) : procs[s].entry_time # -1 => procs[s].fee = <<0, 1>>

\* with a positive base_fee three ships entered after three different waits,
\* the first without waiting
C12_Witness ==
    /\ base_fee > 0
    /\ \E s, t, u \in 1..Len(procs) :
          /\ procs[s].entry_time # -1 /\ procs[t].entry_time # -1 /\ procs[u].entry_time # -1
          /\ procs[s].wait_time = 0
          /\ procs[s].wait_time < procs[t].wait_time
          /\ procs[t].wait_time < procs[u].wait_time

----------------------------------------------------------------------------

(* Properties of the loaders (SpecCargo) *)

CargoInit ==
    /\ cargo_options \in Catalogs
    /\ boat \in Boats
    /\ CargoIdle
    /\ SimConstructed /\ until = 3 /\ lock.capacity = 1

SpecCargo == CargoInit /\ [][NextCargo]_vars

\* the totals of a list of cargo items
ListTotals(list) == Totals([i \in 1..Len(list) |-> 1], list, 1)

\* the selection stays within both limits of the boat
Feasible(individual, b, options) ==
    LET t == Totals(individual, options, 1)
    IN t.weight <= b.max_weight /\ t.space <= b.max_space

\* the catalog items whose gene is 1, in catalog order
RECURSIVE Selected(_, _, _)
Selected(individual, options, i) ==
    IF i > Len(options) THEN <<>>
    ELSE (IF individual[i] = 1 THEN <<options[i]>> ELSE <<>>)
         \o Selected(individual, options, i + 1)

C7_ShipCapacityInvariant ==
    /\ boat.current_weight <= boat.max_weight
    /\ boat.current_space <= boat.max_space
    /\ boat.current_weight = ListTotals(boat.cargo_list).weight
    /\ boat.current_space = ListTotals(boat.cargo_list).space

\* the loader was handed a jointly infeasible selection, loaded a part of it,
\* and a further direct call loaded nothing more
C7_Witness ==
    /\ pc = "called" /\ result # <<>>
    /\ ~Feasible(result[1], boat, cargo_options)
    /\ Len(boat.cargo_list) > 0
    /\ Len(boat.cargo_list) < Len(Selected(result[1], cargo_options, 1))

\* C8: a load_cargo call whose item does not fit leaves cargo_list,
\* current_weight, current_space and total_value (the whole boat) as they
\* were, and raises nothing.
C8_RefusedLoadLeavesShipUnchanged ==
    [][ (pc' = "called" /\ last_load' # <<>> /\ ~can_load(boat, last_load'[1]).ret)
           => (boat' = boat /\ pc' # "raised") ]_vars

\* a direct call was refused on a boat that already carries cargo
C8_Witness ==
    /\ pc = "called" /\ last_load # <<>>
    /\ Len(boat.cargo_list) > 0
    /\ ~InSeq(boat.cargo_list, last_load[1])
    /\ ~can_load(boat, last_load[1]).ret

\* C9: after load_optimal_cargo on a new boat every selected item was loaded:
\* cargo_list is the selection in catalog order and its value is the best
\* fitness optimize_cargo reported.
C9_OptimizerLoaderInSync ==
    pc = "loaded" =>
       /\ boat.cargo_list = Selected(result[1], cargo_options, 1)
       /\ ListTotals(boat.cargo_list).value = result[2]

\* C10: with an empty catalog neither strategy raises, the boat stays empty,
\* and the optimizer returns the empty selection with value 0.
C10_EmptyCatalogGraceful ==
    cargo_options = <<>> =>
       /\ pc # "raised"
       /\ pc \in {"loaded", "greedy"} =>
             /\ boat.cargo_list = <<>>
             /\ boat.current_weight = 0 /\ boat.current_space = 0
             /\ ListTotals(boat.cargo_list).value = 0
       /\ pc \in {"optimized", "loaded"} => result = << <<>>, 0 >>

\* the knapsack scenario: boat 5000/300, catalog [A, B]
C15_Scenario ==
    /\ boat.max_weight = 5000 /\ boat.max_space = 300
    /\ cargo_options = <<CargoA, CargoB>>

\* C15: in the scenario the fitness of {A,B} is 0, of {A} 100000, of {B} 120000
\* and of {} 0; once [0,1] was evaluated in any generation, optimize_cargo
\* returns ([0,1], 120000) and load_optimal_cargo loads only B.
C15_KnapsackScenario ==
    C15_Scenario =>
       /\ evalCargo(<<1, 1>>, boat, cargo_options) = 0
       /\ evalCargo(<<1, 0>>, boat, cargo_options) = 100000
       /\ evalCargo(<<0, 1>>, boat, cargo_options) = 120000
       /\ evalCargo(<<0, 0>>, boat, cargo_options) = 0
       /\ (pc \in {"optimized", "loaded"} /\ <<0, 1>> \in evaluated) =>
             result = << <<0, 1>>, 120000 >>
       /\ (pc = "loaded" /\ <<0, 1>> \in evaluated) =>
             /\ boat.cargo_list = <<CargoB>>
             /\ boat.current_weight = 3000 /\ boat.current_space = 200

\* the scenario was optimized and loaded, [0,1] and every other selection were
\* evaluated, and the hall of fame did not start from [0,1]
C15_Witness ==
    /\ C15_Scenario /\ pc = "loaded"
    /\ evaluated = BitVectors(2)
    /\ gen = Generations
    /\ pop[1] # <<0, 1>> /\ pop[2] # <<0, 1>>

----------------------------------------------------------------------------
(* The value figures of a ship (Spec) *)

\* the sum of value_per_unit over a list of cargo items, from position i on
RECURSIVE SumValuePerUnit(_, _)
SumValuePerUnit(list, i) ==
    IF i > Len(list) THEN 0 ELSE list[i].value_per_unit + SumValuePerUnit(list, i + 1)

\* the sum of "Value" over the cargo records of process s, from record j on
RECURSIVE SumCargoRecords(_, _)
SumCargoRecords(s, j) ==
    IF j > Len(cargo_logs) THEN 0
    ELSE (IF cargo_emitted[j] = s THEN cargo_logs[j].Value ELSE 0)
         + SumCargoRecords(s, j + 1)

\* C17: the total_value of every boat is the sum of value_per_unit over its
\* cargo_list (not multiplied by weight); the "Cargo Value" of a ship record is
\* the sum of value_per_unit * weight over the ship's cargo_list and the sum
\* of "Value" over that ship's cargo records.
C17_ValueFigures ==
    /\ boat.total_value = SumValuePerUnit(boat.cargo_list, 1)
    /\ \A s \in 1..Len(procs) :
          procs[s].ship.total_value = SumValuePerUnit(procs[s].ship.cargo_list, 1)
    /\ \A i \in 1..Len(ship_logs) :
          LET s == emitted[i] IN
          /\ ship_logs[i].Cargo_Value = ListTotals(procs[s].ship.cargo_list).value
          /\ ship_logs[i].Cargo_Value = SumCargoRecords(s, 1)

\* two ships with different loads have departed: their records show 100000
\* and 120000 while their total_value is 50 and 40
C17_Witness ==
    \E i, k \in 1..Len(ship_logs) :
       /\ ship_logs[i].Cargo_Value = 100000 /\ procs[emitted[i]].ship.total_value = 50
       /\ ship_logs[k].Cargo_Value = 120000 /\ procs[emitted[k]].ship.total_value = 40
       /\ Len(cargo_logs) >= 2

----------------------------------------------------------------------------
(* The records of a run (Spec) *)

\* the number of cargo records process s has written, from record j on
RECURSIVE CountCargoRecords(_, _)
CountCargoRecords(s, j) ==
    IF j > Len(cargo_emitted) THEN 0
    ELSE (IF cargo_emitted[j] = s THEN 1 ELSE 0) + CountCargoRecords(s, j + 1)

\* C21: every departed ship has written exactly one ship record, at its
\* departure, and one cargo record per item of its cargo_list, and no other
\* ship has written any, so ship_count is the number of ship records; every
\* ship record has arrival <= entry <= exit <= horizon, wait_time = entry -
\* arrival >= 0, exit = entry + service_time, free_weight = max_weight -
\* cargo_weight >= 0 and free_space = max_space - cargo_space >= 0.
C21_RecordEmission ==
    /\ ship_count = Len(ship_logs)
    /\ Len(emitted) = Len(ship_logs) /\ Len(cargo_emitted) = Len(cargo_logs)
    /\ \A i, k \in 1..Len(emitted) : emitted[i] = emitted[k] => i = k
    /\ \A s \in 1..Len(procs) :
          /\ InSeq(emitted, s) <=> procs[s].pc = "Departed"
          /\ CountCargoRecords(s, 1) =
                IF procs[s].pc = "Departed" THEN Len(procs[s].ship.cargo_list) ELSE 0
    /\ \A i \in 1..Len(ship_logs) :
          LET r == ship_logs[i]
              p == procs[emitted[i]]
          IN /\ r.Exit = p.exit_time /\ r.Ship = p.ship.name
             /\ r.Arrival <= r.Entry /\ r.Entry <= r.Exit /\ r.Exit <= until
             /\ r.Wait_Time = r.Entry - r.Arrival /\ r.Wait_Time >= 0
             /\ r.Exit = r.Entry + r.Service_Time
             /\ r.Cargo_Weight = p.ship.current_weight
             /\ r.Cargo_Space = p.ship.current_space
             /\ r.Free_Weight = p.ship.max_weight - r.Cargo_Weight /\ r.Free_Weight >= 0
             /\ r.Free_Space = p.ship.max_space - r.Cargo_Space /\ r.Free_Space >= 0

\* three ships have departed, one of them after waiting and after a service
\* that took time, and cargo records were written
C21_Witness ==
    /\ Len(ship_logs) = 3 /\ Len(cargo_logs) >= 2
    /\ \E i \in 1..Len(ship_logs) :
          /\ ship_logs[i].Wait_Time > 0 /\ ship_logs[i].Service_Time > 0
          /\ ship_logs[i].Free_Weight < 5000

----------------------------------------------------------------------------
(* The bookkeeping of a run (Spec) *)

\* the sum of base_fee / (1 + wait_time) over the recorded wait times, from
\* position i on
RECURSIVE FeesOfWaits(_, _)
FeesOfWaits(wts, i) ==
    IF i > Len(wts) THEN <<0, 1>>
    ELSE FracAdd(fee_of(base_fee, wts[i]), FeesOfWaits(wts, i + 1))

\* total_fees_collected is the sum of the fees over exactly the recorded wait
\* times, which are the wait times of the ships that entered a lock
FeesMatchRecordedWaits ==
    /\ total_fees_collected = FeesOfWaits(wait_times, 1)
    /\ Len(wait_times) = Cardinality({ s \in 1..Len(procs) : procs[s].entry_time # -1 })
    /\ \A s \in 1..Len(procs) :
          procs[s].entry_time # -1 => InSeq(wait_times, procs[s].wait_time)

\* the locks granted to a ship that has not resumed yet: its Request event is
\* still queued
GrantsPending == Cardinality({ i \in 1..Len(queue) : queue[i].kind = "Request" })

\* C22 as stated: between any two event turns the number of recorded wait
\* times is ship_count plus the number of locks in use, and
\* total_fees_collected is the sum of base_fee / (1 + wait_time) over exactly
\* the ships whose wait times are recorded.
C22_BookkeepingConservation ==
    /\ Len(wait_times) = ship_count + Len(lock.users)
    /\ FeesMatchRecordedWaits

\* C22 amended: the number of recorded wait times is ship_count plus the
\* number of ships in service, that is the locks in use less the locks granted
\* to a ship that has not resumed yet; the fees are as stated.
C22_BookkeepingByShipsInService ==
    /\ Len(wait_times) = ship_count + Len(lock.users) - GrantsPending
    /\ Len(wait_times) = ship_count
          + Cardinality({ s \in 1..Len(procs) : procs[s].pc = "InService" })
    /\ FeesMatchRecordedWaits

\* one ship has departed, one is in service, and one that had to wait was
\* granted the freed lock and has not resumed yet
C22_Witness ==
    /\ ship_count >= 1 /\ GrantsPending >= 1
    /\ \E s \in 1..Len(procs) : procs[s].pc = "InService"
    /\ \E w \in queued : procs[w].pc = "Waiting" /\ InSeq(lock.users, w)

====
